---- MODULE Spec2Model ----
(***************************************************************************)
(* Model of the document search of src/src/components/DocumentSearchModal  *)
(* .tsx: searchMarkdownLines, searchByRegex, searchBySubstring,            *)
(* createPreview, hasWordBoundaries and isWordCharacter.                   *)
(*                                                                         *)
(* A JavaScript string is a sequence of UTF-16 code units; here it is a    *)
(* sequence whose elements are one-unit strings ("a", "-", ...).  Two code *)
(* units that have no ASCII spelling are named: "U+0130" is LATIN CAPITAL  *)
(* LETTER I WITH DOT ABOVE and "U+0307" is COMBINING DOT ABOVE.  Offsets   *)
(* are 0-based as in the source; At and Slice do the conversion.           *)
(***************************************************************************)
EXTENDS Integers, Sequences, FiniteSets, TLC

VARIABLES lines, query, options, result, pc, scan, regex, refCall, calls

\* The state of the mounted DocumentSearchModal and of its timers; previewCall
\* holds a call of createPreview, its arguments and what it returned.
VARIABLES markdown, debouncedQuery, currentPage, isOpen, mounted, debounceRef,
          timers, timeouts, splits, previewCall

dialogVars ==
  <<markdown, debouncedQuery, currentPage, isOpen, mounted, debounceRef,
    timers, timeouts, splits, previewCall>>

vars ==
  <<lines, query, options, result, pc, scan, regex, refCall, calls,
    markdown, debouncedQuery, currentPage, isOpen, mounted, debounceRef,
    timers, timeouts, splits, previewCall>>

(***************************************************************************)
(* Program constants.                                                      *)
(***************************************************************************)
MAX_MATCH_LINES == 500
MATCHES_PER_PAGE == 100
SNIPPET_PADDING == 40

NULL == "null"

(***************************************************************************)
(* Bounds of the model.                                                    *)
(***************************************************************************)
MaxLineLen == 4      \* longest line scanned on its own
MaxQueryLen == 2     \* longest trimmed query
MaxPad == 1          \* most whitespace on either side of the text in the input
MaxDocLines == 2     \* most lines of a small document
MaxOver == 1         \* a large document repeats its block up to MAX_MATCH_LINES + MaxOver times
MaxCalls == 3        \* searches made one after the other
MaxTimeouts == 3     \* timeouts set by the input of one run of the dialog
MaxRuns == 4         \* evaluations of the searchResult memo
MaxSplits == 3       \* evaluations of the lines memo of one mounted modal
MaxTextLen == 4      \* longest document text split on its own
MaxPreviewLine == 84 \* longest line a preview is made of
MaxMatchLen == 2     \* longest match a preview is made around
MaxOff == 2          \* how far an offset or a length given to createPreview is out of range

Max(a, b) == IF a >= b THEN a ELSE b
Min(a, b) == IF a <= b THEN a ELSE b

(***************************************************************************)
(* Strings.                                                                *)
(***************************************************************************)
At(s, i) == IF i >= 0 /\ i < Len(s) THEN s[i + 1] ELSE ""

Slice(s, from, to) == SubSeq(s, Max(0, from) + 1, Min(Len(s), to))

RECURSIVE Flatten(_)
Flatten(ss) == IF ss = <<>> THEN <<>> ELSE Head(ss) \o Flatten(Tail(ss))

UpperLetters ==
  <<"A", "B", "C", "D", "E", "F", "G", "H", "I", "J", "K", "L", "M",
    "N", "O", "P", "Q", "R", "S", "T", "U", "V", "W", "X", "Y", "Z">>
LowerLetters ==
  <<"a", "b", "c", "d", "e", "f", "g", "h", "i", "j", "k", "l", "m",
    "n", "o", "p", "q", "r", "s", "t", "u", "v", "w", "x", "y", "z">>
Digits == {"0", "1", "2", "3", "4", "5", "6", "7", "8", "9"}
AsciiLetters == {UpperLetters[i] : i \in 1..26} \cup {LowerLetters[i] : i \in 1..26}

\* The lower-case mapping of one code unit: String.prototype.toLowerCase
\* follows the Unicode case mappings, under which U+0130 becomes the two
\* units "i" U+0307 and every other unit of the model becomes one unit.
LowerOfUnit(c) ==
  IF c = "U+0130" THEN <<"i", "U+0307">>
  ELSE IF \E i \in 1..26 : UpperLetters[i] = c
       THEN <<LowerLetters[CHOOSE i \in 1..26 : UpperLetters[i] = c]>>
       ELSE <<c>>

toLowerCase(s) == Flatten([i \in 1..Len(s) |-> LowerOfUnit(s[i])])

IsWhiteSpace(c) == c \in {" ", "TAB", "LF", "CR"}

RECURSIVE trimStart(_)
trimStart(s) ==
  IF s # <<>> /\ IsWhiteSpace(Head(s)) THEN trimStart(Tail(s)) ELSE s

RECURSIVE trimEnd(_)
trimEnd(s) ==
  IF s # <<>> /\ IsWhiteSpace(s[Len(s)]) THEN trimEnd(SubSeq(s, 1, Len(s) - 1)) ELSE s

trim(s) == trimEnd(trimStart(s))

\* String.prototype.indexOf(searchString, position): the least k >= position
\* at which searchString occurs, or -1.
RECURSIVE indexOfFrom(_, _, _)
indexOfFrom(s, search, k) ==
  IF k + Len(search) > Len(s) THEN -1
  ELSE IF SubSeq(s, k + 1, k + Len(search)) = search THEN k
  ELSE indexOfFrom(s, search, k + 1)

indexOf(s, search, position) == indexOfFrom(s, search, Min(Max(position, 0), Len(s)))

(***************************************************************************)
(* isWordCharacter: /[\p{L}\p{N}_]/u.test(char), false for "".             *)
(***************************************************************************)
isWordCharacter(char) ==
  IF char = "" THEN FALSE
  ELSE char \in AsciiLetters \/ char \in Digits \/ char = "_" \/ char = "U+0130"

hasWordBoundaries(line, index, matchLength) ==
  LET charBefore == At(line, index - 1)
      charAfter == At(line, index + matchLength)
  IN ~isWordCharacter(charBefore) /\ ~isWordCharacter(charAfter)

(***************************************************************************)
(* createPreview.                                                          *)
(***************************************************************************)
EmptyLinePlaceholder ==
  <<"(", "e", "m", "p", "t", "y", " ", "l", "i", "n", "e", ")">>

Ellipsis == <<".", ".", ".">>

\* const safeIndex = Math.max(0, index); const safeLength = Math.max(1, matchLength)
safeIndex(index) == Max(0, index)
safeLength(matchLength) == Max(1, matchLength)

sliceStart_unclamped(line, index) == safeIndex(index) - SNIPPET_PADDING

\* const sliceStart = Math.max(0, safeIndex - SNIPPET_PADDING)
sliceStart(line, index) == Max(0, safeIndex(index) - SNIPPET_PADDING)

\* const sliceEnd = Math.min(line.length, safeIndex + safeLength + SNIPPET_PADDING)
sliceEnd(line, index, matchLength) ==
  Min(Len(line), safeIndex(index) + safeLength(matchLength) + SNIPPET_PADDING)

createPreview_cutAtMatch(line, index, matchLength) ==
  IF line = <<>> THEN EmptyLinePlaceholder
  ELSE LET safeI == Max(0, index)
           safeL == Max(1, matchLength)
           from == Max(0, safeI - SNIPPET_PADDING)
           to == Min(Len(line), safeI + safeL + SNIPPET_PADDING)
           prefix == IF safeI > 0 THEN Ellipsis ELSE <<>>
           suffix == IF to < Len(line) THEN Ellipsis ELSE <<>>
       IN prefix \o Slice(line, from, to) \o suffix

createPreview(line, index, matchLength) ==
  IF line = <<>> THEN EmptyLinePlaceholder
  ELSE LET prefix == IF sliceStart(line, index) > 0 THEN Ellipsis ELSE <<>>
           suffix == IF sliceEnd(line, index, matchLength) < Len(line)
                     THEN Ellipsis ELSE <<>>
       IN prefix
            \o Slice(line, sliceStart(line, index), sliceEnd(line, index, matchLength))
            \o suffix

(***************************************************************************)
(* new RegExp(source, flags) for the patterns the model draws: literal     *)
(* units, the quantifier *, groups ( ) and (?: ), and the assertion \b.    *)
(* A pattern is parsed to a tree; ok = FALSE stands for the SyntaxError    *)
(* the constructor throws.                                                 *)
(***************************************************************************)
SyntaxError == [ok |-> FALSE, next |-> 0, quantifiable |-> FALSE]

RECURSIVE ParseAlternative(_, _, _)
RECURSIVE ParseTerm(_, _)

\* The alternative goes on after a term that parsed.
AfterTerm(src, items, term) ==
  IF ~term.ok THEN SyntaxError
  ELSE ParseAlternative(src, term.next, Append(items, term.node))

\* Terms up to the end of the pattern or the next ")".
ParseAlternative(src, i, items) ==
  IF i >= Len(src) \/ At(src, i) = ")"
  THEN [ok |-> TRUE, node |-> [t |-> "seq", items |-> items], next |-> i,
        quantifiable |-> TRUE]
  ELSE AfterTerm(src, items, ParseTerm(src, i))

\* The group opened at i, inner being what was parsed after "(" or "(?:".
Group(src, i, isSpecial, inner) ==
  IF isSpecial /\ At(src, i + 2) # ":" THEN SyntaxError           \* invalid group
  ELSE IF ~inner.ok THEN SyntaxError
  ELSE IF At(src, inner.next) # ")" THEN SyntaxError              \* unterminated group
  ELSE [ok |-> TRUE, node |-> [t |-> "group", body |-> inner.node],
        next |-> inner.next + 1, quantifiable |-> TRUE]

ParseGroup(src, i, isSpecial) ==
  Group(src, i, isSpecial,
        ParseAlternative(src, IF isSpecial THEN i + 3 ELSE i + 1, <<>>))

ParseAtom(src, i) ==
  LET c == At(src, i)
  IN IF c = "\\"
     THEN IF At(src, i + 1) = "b"
          THEN [ok |-> TRUE, node |-> [t |-> "wordBoundary"], next |-> i + 2,
                quantifiable |-> FALSE]
          ELSE IF i + 1 >= Len(src) THEN SyntaxError     \* \ at end of pattern
          ELSE [ok |-> TRUE, node |-> [t |-> "char", c |-> At(src, i + 1)],
                next |-> i + 2, quantifiable |-> TRUE]
     ELSE IF c = "(" THEN ParseGroup(src, i, At(src, i + 1) = "?")
     ELSE IF c \in {"*", "+", "?"} THEN SyntaxError                 \* nothing to repeat
     ELSE [ok |-> TRUE, node |-> [t |-> "char", c |-> c], next |-> i + 1,
           quantifiable |-> TRUE]

\* The atom with the quantifier * that follows it, if any.
Quantified(src, atom) ==
  IF atom.ok /\ At(src, atom.next) = "*"
  THEN IF atom.quantifiable
       THEN [ok |-> TRUE, node |-> [t |-> "star", body |-> atom.node],
             next |-> atom.next + 1, quantifiable |-> FALSE]
       ELSE SyntaxError                                          \* nothing to repeat
  ELSE atom

ParseTerm(src, i) == Quantified(src, ParseAtom(src, i))

Compiled(source, flags, parsed) ==
  IF parsed.ok /\ parsed.next = Len(source)
  THEN [ok |-> TRUE, node |-> parsed.node, ignoreCase |-> flags = "gi"]
  ELSE [ok |-> FALSE, node |-> [t |-> "seq", items |-> <<>>], ignoreCase |-> flags = "gi"]

\* The compiled expression, or ok = FALSE when the constructor throws.
RegExp(source, flags) == Compiled(source, flags, ParseAlternative(source, 0, <<>>))

\* Canonicalize of the matcher without the u flag: the unit's upper case
\* when that is a single unit.
Canonicalize(c, ignoreCase) ==
  IF ignoreCase /\ (\E i \in 1..26 : LowerLetters[i] = c)
  THEN UpperLetters[CHOOSE i \in 1..26 : LowerLetters[i] = c]
  ELSE c

\* \w without the u flag: ASCII letters, digits and underscore.
IsRegExpWordChar(c) == c \in AsciiLetters \/ c \in Digits \/ c = "_"

IsWordBoundaryAt(s, pos) ==
  IsRegExpWordChar(At(s, pos - 1)) # IsRegExpWordChar(At(s, pos))

(***************************************************************************)
(* The backtracking matcher: MatchEnds is the sequence of positions at     *)
(* which a match of node starting at pos can end, in the order in which    *)
(* backtracking tries them; the match the engine reports is the first.     *)
(***************************************************************************)
RECURSIVE MatchEnds(_, _, _, _)
RECURSIVE SeqEnds(_, _, _, _, _)
RECURSIVE StarEnds(_, _, _, _)

MatchEnds(node, s, pos, ignoreCase) ==
  CASE node.t = "char" ->
         IF pos < Len(s)
            /\ Canonicalize(At(s, pos), ignoreCase) = Canonicalize(node.c, ignoreCase)
         THEN <<pos + 1>> ELSE <<>>
    [] node.t = "wordBoundary" -> IF IsWordBoundaryAt(s, pos) THEN <<pos>> ELSE <<>>
    [] node.t = "group" -> MatchEnds(node.body, s, pos, ignoreCase)
    [] node.t = "seq" -> SeqEnds(node.items, 1, s, <<pos>>, ignoreCase)
    [] node.t = "star" -> StarEnds(node.body, s, pos, ignoreCase)

SeqEnds(items, k, s, starts, ignoreCase) ==
  IF k > Len(items) THEN starts
  ELSE SeqEnds(items, k + 1, s,
               Flatten([j \in 1..Len(starts) |->
                          MatchEnds(items[k], s, starts[j], ignoreCase)]),
               ignoreCase)

\* Greedy: as many iterations as possible first; an iteration that matches
\* the empty string is rejected.  once holds the ends of one iteration.
StarAfter(body, s, pos, ignoreCase, once) ==
  Flatten([j \in 1..Len(once) |-> StarEnds(body, s, once[j], ignoreCase)]) \o <<pos>>

StarEnds(body, s, pos, ignoreCase) ==
  StarAfter(body, s, pos, ignoreCase,
            SelectSeq(MatchEnds(body, s, pos, ignoreCase), LAMBDA e : e > pos))

\* RegExp.prototype.exec of a global expression: the leftmost match at or
\* after lastIndex; lastIndex becomes the match's end, or 0 when there is none.
RECURSIVE execFrom(_, _, _)
\* The attempt at position i, ends being the ends of the matches that start there.
execAt(re, s, i, ends) ==
  IF ends # <<>>
  THEN [found |-> TRUE, index |-> i, end |-> Head(ends), lastIndex |-> Head(ends)]
  ELSE execFrom(re, s, i + 1)

execFrom(re, s, i) ==
  IF i > Len(s) THEN [found |-> FALSE, index |-> -1, end |-> -1, lastIndex |-> 0]
  ELSE execAt(re, s, i, MatchEnds(re.node, s, i, re.ignoreCase))

exec(re, s, lastIndex) == execFrom(re, s, lastIndex)

(***************************************************************************)
(* SearchResult values.                                                    *)
(***************************************************************************)
InvalidRegexMessage == "Invalid regular expression."

\* The early return of searchMarkdownLines for an empty query.
IdleResult ==
  [matches |-> <<>>, totalOccurrences |-> 0, totalMatchedLines |-> 0,
   isTruncated |-> FALSE, errorMessage |-> NULL]

\* The return of the catch block of searchByRegex.
ErrorResult ==
  [matches |-> <<>>, totalOccurrences |-> 0, totalMatchedLines |-> 0,
   isTruncated |-> FALSE, errorMessage |-> InvalidRegexMessage]

\* The return inside the loop over the lines, once the cap is reached.
TruncatedResult(matches) ==
  [matches |-> matches, totalOccurrences |-> -1, totalMatchedLines |-> -1,
   isTruncated |-> TRUE, errorMessage |-> NULL]

RECURSIVE SumOccurrences(_, _, _)
SumOccurrences(matches, lo, hi) ==
  IF lo > hi THEN 0
  ELSE IF lo = hi THEN matches[lo].occurrences
  ELSE LET mid == (lo + hi) \div 2
       IN SumOccurrences(matches, lo, mid) + SumOccurrences(matches, mid + 1, hi)

CompleteResult_countsLines(matches) ==
  [matches |-> matches, totalOccurrences |-> Len(matches),
   totalMatchedLines |-> Len(matches), isTruncated |-> FALSE, errorMessage |-> NULL]

\* The return after the loop over the lines: matches.reduce sums the occurrences.
CompleteResult(matches) ==
  [matches |-> matches, totalOccurrences |-> SumOccurrences(matches, 1, Len(matches)),
   totalMatchedLines |-> Len(matches), isTruncated |-> FALSE, errorMessage |-> NULL]

\* A function's completion: it returns a value or lets an exception escape.
Return(value) == [completion |-> "return", value |-> value]
Throw == [completion |-> "throw", value |-> IdleResult]

\* const matches: LineMatch[] = [] at the start of each of the two searches.
NewMatches_shared == result.matches

NewMatches == <<>>

CapReached_offByOne(matches) == Len(matches) > MAX_MATCH_LINES

\* matches.length >= MAX_MATCH_LINES
CapReached(matches) == Len(matches) >= MAX_MATCH_LINES

RecordLine_zeroBased(st, index, occurrences, preview) ==
  IF occurrences = 0 THEN st
  ELSE IF CapReached(st.matches) THEN [st EXCEPT !.returned = TRUE]
  ELSE [st EXCEPT !.matches =
          Append(@, [lineNumber |-> index, occurrences |-> occurrences,
                     preview |-> preview])]

RecordLine_capFirst(st, index, occurrences, preview) ==
  IF CapReached(st.matches) THEN [st EXCEPT !.returned = TRUE]
  ELSE IF occurrences = 0 THEN st
  ELSE [st EXCEPT !.matches =
          Append(@, [lineNumber |-> index + 1, occurrences |-> occurrences,
                     preview |-> preview])]

\* What the three statements that end the body of either loop do with the
\* scan of one line: skip a line without occurrences, return at the cap,
\* or push the LineMatch.
RecordLine(st, index, occurrences, preview) ==
  IF occurrences = 0 THEN st
  ELSE IF CapReached(st.matches) THEN [st EXCEPT !.returned = TRUE]
  ELSE [st EXCEPT !.matches =
          Append(@, [lineNumber |-> index + 1, occurrences |-> occurrences,
                     preview |-> preview])]

\* The loop over the lines, for (index = 0; index < lines.length; index++):
\* st is [matches, returned, iterations], iterations counting the times the
\* body was entered, and scanned[index] is what the scan of line index ends
\* with, [occurrences, preview].  The iterations index = lo ..
\* hi-1 run in ascending order, the range being halved so that the
\* evaluation nests only logarithmically deep; nothing runs once the body
\* has returned.
LoopStart == [matches |-> NewMatches, returned |-> FALSE, iterations |-> 0]

RECURSIVE ForEachLine(_, _, _, _)
ForEachLine(scanned, lo, hi, st) ==
  IF st.returned \/ lo >= hi THEN st
  ELSE IF hi = lo + 1
  THEN LET sc == scanned[lo]
       IN RecordLine([st EXCEPT !.iterations = @ + 1], lo, sc.occurrences, sc.preview)
  ELSE LET mid == (lo + hi) \div 2
       IN ForEachLine(scanned, mid, hi, ForEachLine(scanned, lo, mid, st))

\* How the loop over the lines was left: by the return at the cap, or at
\* its end, which the return of the complete result follows.
AfterLoop(end) ==
  IF end.returned THEN Return(TruncatedResult(end.matches))
  ELSE Return(CompleteResult(end.matches))

(***************************************************************************)
(* searchBySubstring.  The scan of one line is the while loop; its state   *)
(* is the locals occurrences, fromIndex and firstMatchIndex, with          *)
(* foundIndex and counted (isWholeWordMatch) of the last iteration and     *)
(* running = FALSE once the loop has been left.                            *)
(***************************************************************************)
SubstringScanStart ==
  [occurrences |-> 0, fromIndex |-> 0, firstMatchIndex |-> -1,
   foundIndex |-> -1, counted |-> FALSE, running |-> TRUE]

\* fromIndex = foundIndex + Math.max(1, normalizedQuery.length)
NextFromIndex(foundIndex, normalizedQuery) == foundIndex + Max(1, Len(normalizedQuery))

\* The body of the while loop from the test of isWholeWordMatch on.
SubstringLoopBody(st, normalizedQuery, foundIndex, isWholeWordMatch) ==
  [occurrences |-> IF isWholeWordMatch THEN st.occurrences + 1 ELSE st.occurrences,
   firstMatchIndex |-> IF isWholeWordMatch /\ st.firstMatchIndex = -1
                       THEN foundIndex ELSE st.firstMatchIndex,
   fromIndex |-> NextFromIndex(foundIndex, normalizedQuery),
   foundIndex |-> foundIndex,
   counted |-> isWholeWordMatch,
   running |-> TRUE]

\* One evaluation of the loop condition and, when it holds, of the body.
SubstringIteration(line, normalizedQuery, opts, st) ==
  LET searchTarget == IF opts.caseSensitive THEN line ELSE toLowerCase(line)
      foundIndex == indexOf(searchTarget, normalizedQuery, st.fromIndex)
  IN IF ~(st.fromIndex < Len(searchTarget)) \/ foundIndex = -1
     THEN [st EXCEPT !.running = FALSE, !.foundIndex = -1, !.counted = FALSE]
     ELSE SubstringLoopBody(st, normalizedQuery, foundIndex,
            ~opts.wholeWord \/ hasWordBoundaries(line, foundIndex, Len(normalizedQuery)))

RECURSIVE SubstringScan(_, _, _, _)
SubstringScan(line, normalizedQuery, opts, st) ==
  IF st.running
  THEN SubstringScan(line, normalizedQuery, opts,
                     SubstringIteration(line, normalizedQuery, opts, st))
  ELSE st

\* What the scan sc of a line leaves for the end of the loop body.
SubstringLine(line, q, sc) ==
  [occurrences |-> sc.occurrences,
   preview |-> createPreview(line, sc.firstMatchIndex, Len(q))]

\* The for loop of searchBySubstring, to the point where it is left.
SubstringLoop(ls, q, opts) ==
  LET normalizedQuery == IF opts.caseSensitive THEN q ELSE toLowerCase(q)
      scanned == [index \in 0..(Len(ls) - 1) |->
        SubstringLine(ls[index + 1], q,
          SubstringScan(ls[index + 1], normalizedQuery, opts, SubstringScanStart))]
  IN ForEachLine(scanned, 0, Len(ls), LoopStart)

searchBySubstring(ls, q, opts) == AfterLoop(SubstringLoop(ls, q, opts))

(***************************************************************************)
(* searchByRegex.  The scan of one line is the exec loop; its state is     *)
(* the locals occurrences, firstMatchIndex and firstMatchLength and        *)
(* regex.lastIndex, with the index and end of the last match.              *)
(***************************************************************************)
RegexScanStart ==
  [occurrences |-> 0, lastIndex |-> 0, firstMatchIndex |-> -1, firstMatchLength |-> 0,
   matchIndex |-> -1, matchEnd |-> -1, running |-> TRUE]

WholeWordPrefix == <<"\\", "b", "(", "?", ":">>
WholeWordSuffix == <<")", "\\", "b">>

RegexFlags_noIgnoreCase(opts) == "g"

RegexFlags(opts) == IF opts.caseSensitive THEN "g" ELSE "gi"

RegexSource(q, opts) ==
  IF opts.wholeWord THEN WholeWordPrefix \o q \o WholeWordSuffix ELSE q

AfterMatch_noGuard(lastIndex, matchLength) == lastIndex

\* if (result[0] === "") regex.lastIndex += 1
AfterMatch(lastIndex, matchLength) ==
  IF matchLength = 0 THEN lastIndex + 1 ELSE lastIndex

\* The test and the body of while (result), r being the result of the exec
\* before it.
RegexLoopBody(st, r) ==
  IF ~r.found
  THEN [st EXCEPT !.running = FALSE, !.lastIndex = r.lastIndex,
                  !.matchIndex = -1, !.matchEnd = -1]
  ELSE [occurrences |-> st.occurrences + 1,
        firstMatchIndex |-> IF st.firstMatchIndex = -1 THEN r.index
                            ELSE st.firstMatchIndex,
        firstMatchLength |-> IF st.firstMatchIndex = -1 THEN Max(1, r.end - r.index)
                             ELSE st.firstMatchLength,
        lastIndex |-> AfterMatch(r.lastIndex, r.end - r.index),
        matchIndex |-> r.index,
        matchEnd |-> r.end,
        running |-> TRUE]

\* One regex.exec(line) and, when it matched, the body of the while loop.
RegexIteration(line, re, st) == RegexLoopBody(st, exec(re, line, st.lastIndex))

RECURSIVE RegexScan(_, _, _)
RegexScan(line, re, st) ==
  IF st.running THEN RegexScan(line, re, RegexIteration(line, re, st)) ELSE st

CompileFailed_uncaught == Throw

\* catch { return {... errorMessage: "Invalid regular expression."} }
CompileFailed == Return(ErrorResult)

\* What the scan sc of a line leaves for the end of the loop body.
RegexLine(line, sc) ==
  [occurrences |-> sc.occurrences,
   preview |-> createPreview(line, sc.firstMatchIndex, sc.firstMatchLength)]

\* searchByRegex from the try statement on, re being what new RegExp gave.
\* The for loop of searchByRegex, to the point where it is left.
RegexLoop(ls, re) ==
  LET scanned == [index \in 0..(Len(ls) - 1) |->
        RegexLine(ls[index + 1], RegexScan(ls[index + 1], re, RegexScanStart))]
  IN ForEachLine(scanned, 0, Len(ls), LoopStart)

searchByCompiled(ls, re) ==
  IF ~re.ok THEN CompileFailed ELSE AfterLoop(RegexLoop(ls, re))

\* The lines whose scan searchByRegex begins: none if the pattern does not
\* compile.
RegexLinesScanned(ls, re) == IF ~re.ok THEN 0 ELSE RegexLoop(ls, re).iterations

searchByRegex(ls, q, opts) ==
  searchByCompiled(ls, RegExp(RegexSource(q, opts), RegexFlags(opts)))

IsEmptyQuery_never(q) == FALSE

\* if (!query)
IsEmptyQuery(q) == q = <<>>

searchMarkdownLines(ls, q, opts) ==
  IF IsEmptyQuery(q) THEN Return(IdleResult)
  ELSE IF opts.regex THEN searchByRegex(ls, q, opts)
  ELSE searchBySubstring(ls, q, opts)

\* The call of the component: searchMarkdownLines(lines, debouncedQuery.trim(), options).
search(ls, rawQuery, opts) == searchMarkdownLines(ls, trim(rawQuery), opts)

\* The lines whose scan that call begins: the iterations of the for loop of
\* the search it dispatches to, none for an empty query.
LinesScanned(ls, rawQuery, opts) ==
  IF IsEmptyQuery(trim(rawQuery)) THEN 0
  ELSE IF opts.regex
  THEN RegexLinesScanned(ls, RegExp(RegexSource(trim(rawQuery), opts), RegexFlags(opts)))
  ELSE SubstringLoop(ls, trim(rawQuery), opts).iterations

(***************************************************************************)
(* The inputs the specifications draw.                                     *)
(***************************************************************************)
SeqsUpTo(S, n) == UNION {[1..k -> S] : k \in 0..n}

Options == [caseSensitive : BOOLEAN, wholeWord : BOOLEAN, regex : BOOLEAN]

DefaultOptions == [caseSensitive |-> FALSE, wholeWord |-> FALSE, regex |-> FALSE]

LineUnits == {"a", "-", "U+0130"}
QueryUnits == {"a", "A", "-", "*", "("}

Spaces(n) == [i \in 1..n |-> " "]

\* The texts of the input whose trimmed value is q.
Padded(q) == {Spaces(i) \o q \o Spaces(j) : i, j \in 0..MaxPad}

RawQueries == UNION {Padded(q) : q \in SeqsUpTo(QueryUnits, MaxQueryLen)}

SampleLines ==
  {<<>>, <<"a">>, <<"-", " ">>, <<"a", "a", "a">>, <<"A", "-", "a">>, <<"(", "*">>}

\* The documents every text of the input is searched in.
QueryDocs ==
  { << <<"a", "a", "a">>, <<"-", " ">> >>,
    << <<"(", "*">>, <<>>, <<"A", "-", "a">> >> }

SmallDocs == SeqsUpTo(SampleLines, MaxDocLines)

\* A large document: an optional first line, m times the block of a line
\* "aa" and a line "-", and an optional last line.
Block == << <<"a", "a">>, <<"-">> >>
Blocks(m) == [i \in 1..(2 * m) |-> Block[2 - (i % 2)]]
DocEdges == {<<>>, << <<"a">> >>}
BigDocs ==
  {first \o Blocks(m) \o last :
     first \in DocEdges, last \in DocEdges,
     m \in (MAX_MATCH_LINES - 1)..(MAX_MATCH_LINES + MaxOver)}
\* The texts of the input every document is searched for.
SampleQueries == {<<>>, <<"a">>, <<"A", "a">>, <<"-">>, <<"a", "*">>, <<"(">>}

\* debounceRef.current before any timeout is set: null, which no id equals
\* (setTimeout returns positive numbers).
NoTimer == 0

\* No createPreview call looked at yet.
NoPreview == [line |-> <<>>, index |-> 0, matchLength |-> 0, value |-> <<>>, set |-> FALSE]

\* No DocumentSearchModal is mounted.
NoDialog ==
  /\ markdown = <<>>
  /\ debouncedQuery = <<>>
  /\ currentPage = 1
  /\ isOpen = FALSE
  /\ mounted = FALSE
  /\ debounceRef = NoTimer
  /\ timers = {}
  /\ timeouts = 0
  /\ splits = <<>>
  /\ previewCall = NoPreview

\* The value of regex before any expression is compiled.
NoRegExp == [ok |-> FALSE, node |-> [t |-> "seq", items |-> <<>>], ignoreCase |-> FALSE]

\* No call remembered yet.
NoCall ==
  [set |-> FALSE, lines |-> <<>>, query |-> <<>>, options |-> DefaultOptions,
   completion |-> "return", result |-> IdleResult]

(***************************************************************************)
(* Spec: one call of search on a drawn input.  pc is "ready" before the    *)
(* call and the call's completion after it.                                *)
(***************************************************************************)
Init ==
  /\ \/ lines \in QueryDocs /\ query \in RawQueries
     \/ lines \in SmallDocs \cup BigDocs /\ query \in SampleQueries
  /\ options \in Options
  /\ result = IdleResult
  /\ pc = "ready"
  /\ scan = SubstringScanStart
  /\ regex = NoRegExp
  /\ refCall = NoCall
  /\ calls = 0
  /\ NoDialog

\* The call completes with c: searchResult holds the value returned.
Completes(c) ==
  /\ pc' = c.completion
  /\ result' = c.value

Search ==
  /\ pc = "ready"
  /\ Completes(search(lines, query, options))
  /\ calls' = calls + 1
  /\ UNCHANGED <<lines, query, options, scan, regex, refCall>>
  /\ UNCHANGED dialogVars

Next == Search

Spec == Init /\ [][Next]_vars

(***************************************************************************)
(* ScanSpec: the scan of one line, one loop iteration per step.  lines     *)
(* holds the single line and query the trimmed, non-empty query; in regex  *)
(* mode the pattern is one that compiled (the loop is not reached          *)
(* otherwise).                                                             *)
(***************************************************************************)
ScanLine == lines[1]
NormalizedQuery == IF options.caseSensitive THEN query ELSE toLowerCase(query)

ScanUnits == {"a", "A", "-", "*"}
ScanQueries == SeqsUpTo(ScanUnits, MaxQueryLen) \ {<<>>}
ScanLines == SeqsUpTo(LineUnits, MaxLineLen)

ScanInit ==
  /\ lines = <<>>
  /\ query = <<>>
  /\ options = DefaultOptions
  /\ scan = SubstringScanStart
  /\ regex = NoRegExp
  /\ pc = "ready"
  /\ result = IdleResult
  /\ refCall = NoCall
  /\ calls = 0
  /\ NoDialog

\* The loop over the lines reaches a line: the locals are initialised.
ScanBegin ==
  /\ pc = "ready"
  /\ \E line \in ScanLines : lines' = <<line>>
  /\ query' \in ScanQueries
  /\ options' \in Options
  /\ regex' = IF options'.regex
               THEN RegExp(RegexSource(query', options'), RegexFlags(options'))
               ELSE NoRegExp
  /\ options'.regex => regex'.ok
  /\ scan' = IF options'.regex THEN RegexScanStart ELSE SubstringScanStart
  /\ pc' = "scan"
  /\ UNCHANGED <<result, refCall, calls>>
  /\ UNCHANGED dialogVars

SubstringStep ==
  /\ pc = "scan"
  /\ ~options.regex
  /\ scan.running
  /\ scan' = SubstringIteration(ScanLine, NormalizedQuery, options, scan)
  /\ UNCHANGED <<lines, query, options, result, pc, regex, refCall, calls>>
  /\ UNCHANGED dialogVars

RegexStep ==
  /\ pc = "scan"
  /\ options.regex
  /\ scan.running
  /\ scan' = RegexIteration(ScanLine, regex, scan)
  /\ UNCHANGED <<lines, query, options, result, pc, regex, refCall, calls>>
  /\ UNCHANGED dialogVars

ScanNext == ScanBegin \/ SubstringStep \/ RegexStep

ScanSpec == ScanInit /\ [][ScanNext]_vars

(***************************************************************************)
(* CallsSpec: searches made one after the other, each on any input of a    *)
(* small family, in either mode.  refCall remembers one of the earlier     *)
(* calls, its input and what it returned.                                  *)
(***************************************************************************)
CallDocs == { << <<"a", "a">> >>, << <<"a">>, <<"-", "a">> >> }
CallQueries == {<<"a">>, <<"a", "*">>, <<"(">>}

CallsInit ==
  /\ lines = <<>>
  /\ query = <<>>
  /\ options = DefaultOptions
  /\ result = IdleResult
  /\ pc = "ready"
  /\ scan = SubstringScanStart
  /\ regex = NoRegExp
  /\ refCall = NoCall
  /\ calls = 0
  /\ NoDialog

\* refCall goes on remembering the call it did, or remembers this one.
Remembers(ls, q, opts, c) ==
  /\ Completes(c)
  /\ refCall' \in {refCall,
                   [set |-> TRUE, lines |-> ls, query |-> q, options |-> opts,
                    completion |-> c.completion, result |-> c.value]}

Call(ls, q, opts) ==
  /\ calls < MaxCalls
  /\ Remembers(ls, q, opts, search(ls, q, opts))
  /\ lines' = ls
  /\ query' = q
  /\ options' = opts
  /\ calls' = calls + 1
  /\ UNCHANGED <<scan, regex>>
  /\ UNCHANGED dialogVars

CallsNext == \E ls \in CallDocs, q \in CallQueries, opts \in Options : Call(ls, q, opts)

CallsSpec == CallsInit /\ [][CallsNext]_vars

(***************************************************************************)
(* The DocumentSearchModal component.  markdown and isOpen are its props;  *)
(* query, debouncedQuery, currentPage and options its state; debounceRef   *)
(* its ref; lines and result (searchResult) its two memoized values.       *)
(* timers is the set of the timeouts that were set and have neither fired  *)
(* nor been cleared, each with the value its callback closes over; the ids *)
(* setTimeout returns are 1, 2, ...  calls counts the evaluations of the   *)
(* searchResult memo; splits holds the texts the lines memo of the mounted  *)
(* modal has split, in order.                                              *)
(***************************************************************************)
\* markdown.split(/\r?\n/): the segments between the separators, a separator
\* being a line feed with the carriage return right before it, if any.
LineFeeds(text) ==
  SelectSeq([i \in 1..Len(text) |-> i - 1], LAMBDA k : text[k + 1] = "LF")

SegmentStart(lf, k) == IF k = 1 THEN 0 ELSE lf[k - 1] + 1

SegmentEnd_keepsCR(text, lf, k) ==
  IF k = Len(lf) + 1 THEN Len(text) ELSE lf[k]

SegmentEnd(text, lf, k) ==
  IF k = Len(lf) + 1 THEN Len(text)
  ELSE IF At(text, lf[k] - 1) = "CR" THEN lf[k] - 1
  ELSE lf[k]

Segments(text, lf) ==
  [k \in 1..(Len(lf) + 1) |-> Slice(text, SegmentStart(lf, k), SegmentEnd(text, lf, k))]

split(text) == Segments(text, LineFeeds(text))

\* Math.ceil(searchResult.matches.length / MATCHES_PER_PAGE)
PageCount(length) == (length + MATCHES_PER_PAGE - 1) \div MATCHES_PER_PAGE

\* searchResult.matches.slice((currentPage - 1) * MATCHES_PER_PAGE,
\*                            currentPage * MATCHES_PER_PAGE)
PageSlice_nextPage(matches, page) ==
  Slice(matches, page * MATCHES_PER_PAGE, (page + 1) * MATCHES_PER_PAGE)

PageSlice(matches, page) ==
  Slice(matches, (page - 1) * MATCHES_PER_PAGE, page * MATCHES_PER_PAGE)

clearTimeout_keeps(pending, id) == pending

\* clearTimeout(id): the timeout with that id, if still pending, is dropped.
clearTimeout(pending, id) == {t \in pending : t.id # id}

FirstPage_same == currentPage

\* setCurrentPage(1)
FirstPage == 1

StateChanges_always(old, new) == TRUE

\* A state setter given the value the state has (Object.is) causes no render.
StateChanges(old, new) == new # old

TextChanges_always(text) == TRUE

\* The dependency [markdown] of the lines memo differs from the last render's.
TextChanges(text) == text # markdown

\* The searchResult memo is evaluated: one of its dependencies changed.
Recompute(ls, debounced, opts) ==
  /\ Completes(search(ls, debounced, opts))
  /\ calls' = calls + 1

engineLocals == <<scan, regex, refCall, previewCall>>

\* ViewerPage renders the modal for a loaded document: first render.
Mount(text, open) ==
  /\ ~mounted
  /\ Len(splits) < MaxSplits
  /\ calls < MaxRuns
  /\ mounted' = TRUE
  /\ isOpen' = open
  /\ markdown' = text
  /\ query' = <<>>
  /\ debouncedQuery' = <<>>
  /\ currentPage' = 1
  /\ options' = DefaultOptions
  /\ debounceRef' = NoTimer
  /\ lines' = split(text)
  /\ splits' = <<text>>
  /\ Recompute(split(text), <<>>, DefaultOptions)
  /\ UNCHANGED <<timers, timeouts, engineLocals>>

\* The modal is unmounted: the cleanup of the effect of lines 61-67 runs
\* and the component's state is gone.
Unmount ==
  /\ mounted
  /\ timers' = IF debounceRef # NoTimer THEN clearTimeout(timers, debounceRef) ELSE timers
  /\ mounted' = FALSE
  /\ markdown' = <<>>
  /\ lines' = <<>>
  /\ query' = <<>>
  /\ debouncedQuery' = <<>>
  /\ currentPage' = 1
  /\ options' = DefaultOptions
  /\ debounceRef' = NoTimer
  /\ result' = IdleResult
  /\ pc' = "ready"
  /\ splits' = <<>>
  /\ UNCHANGED <<isOpen, timeouts, calls, engineLocals>>

\* setIsSearchModalOpen(true) / onClose in ViewerPage: the isOpen prop changes.
SetOpen(open) ==
  /\ mounted
  /\ isOpen # open
  /\ isOpen' = open
  /\ UNCHANGED <<markdown, lines, query, debouncedQuery, currentPage, options,
                 mounted, debounceRef, timers, timeouts, splits, result, pc, calls,
                 engineLocals>>

Change_keepsPending(value) ==
  /\ mounted /\ isOpen
  /\ value # query
  /\ timeouts < MaxTimeouts
  /\ query' = value
  /\ currentPage' = FirstPage
  /\ timers' = timers \cup {[id |-> timeouts + 1, value |-> value]}
  /\ debounceRef' = timeouts + 1
  /\ timeouts' = timeouts + 1
  /\ UNCHANGED <<markdown, lines, debouncedQuery, options, isOpen, mounted,
                 splits, result, pc, calls, engineLocals>>

\* onChange of the input: setQuery, setCurrentPage(1), updateDebouncedQuery.
Change(value) ==
  /\ mounted /\ isOpen
  /\ value # query
  /\ timeouts < MaxTimeouts
  /\ query' = value
  /\ currentPage' = FirstPage
  /\ timers' = (IF debounceRef # NoTimer THEN clearTimeout(timers, debounceRef) ELSE timers)
                 \cup {[id |-> timeouts + 1, value |-> value]}
  /\ debounceRef' = timeouts + 1
  /\ timeouts' = timeouts + 1
  /\ UNCHANGED <<markdown, lines, debouncedQuery, options, isOpen, mounted,
                 splits, result, pc, calls, engineLocals>>

TimerFires_dropped(t) ==
  /\ t \in timers
  /\ timers' = timers \ {t}
  /\ UNCHANGED <<debouncedQuery, result, pc, calls>>
  /\ UNCHANGED <<markdown, lines, query, currentPage, options, isOpen, mounted,
                 debounceRef, timeouts, splits, engineLocals>>

\* A pending timeout fires: setDebouncedQuery(value).  A state set to the
\* value it has changes nothing.
TimerFires(t) ==
  /\ t \in timers
  /\ timers' = timers \ {t}
  /\ IF mounted /\ StateChanges(debouncedQuery, t.value)
     THEN /\ calls < MaxRuns
          /\ debouncedQuery' = t.value
          /\ Recompute(lines, t.value, options)
     ELSE UNCHANGED <<debouncedQuery, result, pc, calls>>
  /\ UNCHANGED <<markdown, lines, query, currentPage, options, isOpen, mounted,
                 debounceRef, timeouts, splits, engineLocals>>

\* onChange of one of the three checkboxes: setOptions with a new object.
ToggleOption(name) ==
  /\ mounted /\ isOpen
  /\ calls < MaxRuns
  /\ options' = [options EXCEPT ![name] = ~@]
  /\ Recompute(lines, debouncedQuery, [options EXCEPT ![name] = ~@])
  /\ UNCHANGED <<markdown, lines, query, debouncedQuery, currentPage, isOpen,
                 mounted, debounceRef, timers, timeouts, splits, engineLocals>>

\* Whether the page buttons are rendered (lines 222-246).
PaginationShown ==
  /\ mounted /\ isOpen
  /\ trim(query) # <<>>
  /\ result.errorMessage = NULL
  /\ Len(result.matches) > MATCHES_PER_PAGE

Summary_showsTotals(q, res) ==
  IF trim(q) = <<>>
  THEN [shows |-> "hint", totalOccurrences |-> 0, totalMatchedLines |-> 0]
  ELSE [shows |-> "totals", totalOccurrences |-> res.totalOccurrences,
        totalMatchedLines |-> res.totalMatchedLines]

\* The search-summary of lines 194-213, for the input text q and the
\* searchResult res: the hint for a blank input, "500+ matches (showing
\* first 500 lines)" for a truncated result, and otherwise "<totalOccurrences>
\* match(es) across <totalMatchedLines> line(s)"; the two numbers shown.
Summary(q, res) ==
  IF trim(q) = <<>>
  THEN [shows |-> "hint", totalOccurrences |-> 0, totalMatchedLines |-> 0]
  ELSE IF res.isTruncated
  THEN [shows |-> "truncated", totalOccurrences |-> MAX_MATCH_LINES,
        totalMatchedLines |-> MAX_MATCH_LINES]
  ELSE [shows |-> "totals", totalOccurrences |-> res.totalOccurrences,
        totalMatchedLines |-> res.totalMatchedLines]

\* onClick of a page button: setCurrentPage(page).
ClickPage(page) ==
  /\ PaginationShown
  /\ page \in 1..PageCount(Len(result.matches))
  /\ currentPage' = page
  /\ UNCHANGED <<markdown, lines, query, debouncedQuery, options, isOpen, mounted,
                 debounceRef, timers, timeouts, splits, result, pc, calls,
                 engineLocals>>

\* ViewerPage passes another document text: both memos are evaluated.
ChangeMarkdown(text) ==
  /\ mounted
  /\ TextChanges(text)
  /\ Len(splits) < MaxSplits
  /\ calls < MaxRuns
  /\ markdown' = text
  /\ lines' = split(text)
  /\ splits' = Append(splits, text)
  /\ Recompute(split(text), debouncedQuery, options)
  /\ UNCHANGED <<query, debouncedQuery, currentPage, options, isOpen, mounted,
                 debounceRef, timers, timeouts, engineLocals>>

(***************************************************************************)
(* DialogSpec: the life of the modal, from before it is first mounted.     *)
(***************************************************************************)
\* A text of n lines "a".
ManyLines(n) == [i \in 1..(2 * n - 1) |-> IF i % 2 = 1 THEN "a" ELSE "LF"]

\* The document texts: a short one, and one with so many matching lines
\* that the page buttons are shown.
DialogTexts == {<<"A", "CR", "LF", "a">>, ManyLines(MATCHES_PER_PAGE + MaxOver)}

\* The texts the input is changed to.
DialogInputs == {<<>>, <<"a">>, <<"a", " ">>, <<"(">>}

OptionNames == {"caseSensitive", "wholeWord", "regex"}

DialogInit ==
  /\ lines = <<>>
  /\ query = <<>>
  /\ options = DefaultOptions
  /\ result = IdleResult
  /\ pc = "ready"
  /\ scan = SubstringScanStart
  /\ regex = NoRegExp
  /\ refCall = NoCall
  /\ calls = 0
  /\ NoDialog

DialogNext ==
  \/ \E text \in DialogTexts, open \in BOOLEAN : Mount(text, open)
  \/ Unmount
  \/ \E open \in BOOLEAN : SetOpen(open)
  \/ \E value \in DialogInputs : Change(value)
  \/ \E t \in timers : TimerFires(t)
  \/ \E name \in OptionNames : ToggleOption(name)
  \/ \E page \in 1..PageCount(MAX_MATCH_LINES) : ClickPage(page)
  \/ \E text \in DialogTexts : ChangeMarkdown(text)

DialogSpec == DialogInit /\ [][DialogNext]_vars

\* The same with the event loop's guarantee: a timeout that stays pending
\* fires, 250 ms after it was set.  TimerCanFire is the guard of
\* TimerFiring, that is ENABLED <<TimerFiring>>_vars (a firing always takes
\* the timeout out of timers), and TimerFairness is WF_vars(TimerFiring)
\* with its ENABLED written out as that guard.
TimerFiring == \E t \in timers : TimerFires(t)

TimerCanFire ==
  \E t \in timers : (mounted /\ StateChanges(debouncedQuery, t.value)) => calls < MaxRuns

TimerFairness == []<>(~TimerCanFire) \/ []<><<TimerFiring>>_vars

LiveSpec == DialogSpec /\ TimerFairness

(***************************************************************************)
(* SplitSpec: the modal is mounted with any short text.                    *)
(***************************************************************************)
TextUnits == {"a", " ", "CR", "LF"}
SplitTexts == SeqsUpTo(TextUnits, MaxTextLen)

SplitNext ==
  \/ \E text \in SplitTexts : Mount(text, FALSE)
  \/ Unmount

SplitSpec == DialogInit /\ [][SplitNext]_vars

(***************************************************************************)
(* PageSpec: the page buttons, on the result of searching "a" in a         *)
(* document of any number of lines "a" up to past the cap.  The first      *)
(* state is that of a mounted, open dialog after "a" was typed and its     *)
(* timeout fired.                                                          *)
(***************************************************************************)
PageDocs == {ManyLines(n) : n \in 0..(MAX_MATCH_LINES + MaxOver)}

PageInit ==
  /\ markdown \in PageDocs
  /\ lines = split(markdown)
  /\ query = <<"a">>
  /\ debouncedQuery = <<"a">>
  /\ options = DefaultOptions
  /\ result = search(split(markdown), <<"a">>, DefaultOptions).value
  /\ pc = "return"
  /\ currentPage = 1
  /\ isOpen = TRUE
  /\ mounted = TRUE
  /\ debounceRef = 1
  /\ timers = {}
  /\ timeouts = 1
  /\ splits = <<markdown>>
  /\ calls = 2
  /\ scan = SubstringScanStart
  /\ regex = NoRegExp
  /\ refCall = NoCall
  /\ previewCall = NoPreview

PageNext == \E page \in 1..PageCount(MAX_MATCH_LINES) : ClickPage(page)

PageSpec == PageInit /\ [][PageNext]_vars

(***************************************************************************)
(* PreviewSpec: one call of createPreview, as the two loops make it: on a  *)
(* line, at the offset of its first match, with the length of the match    *)
(* (at least 1: Math.max(1, ...) at line 330, a non-empty query at line    *)
(* 425).  The empty line is matched by a pattern that matches the empty    *)
(* string.  The units of a line are all different, so that a preview       *)
(* tells which part of the line it shows.                                  *)
(***************************************************************************)
NumberedLine(n) == [i \in 1..n |-> ToString(i)]

PreviewCalls ==
  {[line |-> NumberedLine(n), index |-> i, matchLength |-> m, value |-> <<>>, set |-> FALSE] :
     n \in 0..MaxPreviewLine, i \in 0..MaxPreviewLine, m \in 1..MaxMatchLen}

PreviewInit ==
  /\ previewCall \in {c \in PreviewCalls : c.index + c.matchLength <= Max(1, Len(c.line))}
  /\ lines = <<>>
  /\ query = <<>>
  /\ options = DefaultOptions
  /\ result = IdleResult
  /\ pc = "ready"
  /\ scan = SubstringScanStart
  /\ regex = NoRegExp
  /\ refCall = NoCall
  /\ calls = 0
  /\ markdown = <<>>
  /\ debouncedQuery = <<>>
  /\ currentPage = 1
  /\ isOpen = FALSE
  /\ mounted = FALSE
  /\ debounceRef = NoTimer
  /\ timers = {}
  /\ timeouts = 0
  /\ splits = <<>>

Preview ==
  /\ ~previewCall.set
  /\ previewCall' =
       [previewCall EXCEPT
          !.value = createPreview(previewCall.line, previewCall.index, previewCall.matchLength),
          !.set = TRUE]
  /\ UNCHANGED <<lines, query, options, result, pc, scan, regex, refCall, calls,
                 markdown, debouncedQuery, currentPage, isOpen, mounted,
                 debounceRef, timers, timeouts, splits>>

PreviewSpec == PreviewInit /\ [][Preview]_vars

(***************************************************************************)
(* ClampSpec: one call of createPreview with any offset, also negative or  *)
(* past the end of the line by more than the padding, and any length,      *)
(* also zero or negative.                                                  *)
(***************************************************************************)
ClampCalls ==
  {[line |-> NumberedLine(n), index |-> i, matchLength |-> m, value |-> <<>>, set |-> FALSE] :
     n \in 0..MaxPreviewLine,
     i \in (0 - MaxOff)..(MaxPreviewLine + SNIPPET_PADDING + MaxOff),
     m \in (0 - MaxOff)..MaxMatchLen}

ClampInit ==
  /\ previewCall \in ClampCalls
  /\ lines = <<>>
  /\ query = <<>>
  /\ options = DefaultOptions
  /\ result = IdleResult
  /\ pc = "ready"
  /\ scan = SubstringScanStart
  /\ regex = NoRegExp
  /\ refCall = NoCall
  /\ calls = 0
  /\ markdown = <<>>
  /\ debouncedQuery = <<>>
  /\ currentPage = 1
  /\ isOpen = FALSE
  /\ mounted = FALSE
  /\ debounceRef = NoTimer
  /\ timers = {}
  /\ timeouts = 0
  /\ splits = <<>>

ClampSpec == ClampInit /\ [][Preview]_vars

(***************************************************************************)
(* CaseSpec: one call of the search in substring mode on one line, with    *)
(* letters of both cases in the line and in the query.                     *)
(***************************************************************************)
CaseLines == SeqsUpTo({"a", "A", "-", "U+0130"}, MaxLineLen)
CaseQueries == SeqsUpTo({"a", "A"}, MaxQueryLen) \ {<<>>}

CaseInit ==
  /\ \E line \in CaseLines : lines = <<line>>
  /\ query \in CaseQueries
  /\ options \in {o \in Options : ~o.regex}
  /\ result = IdleResult
  /\ pc = "ready"
  /\ scan = SubstringScanStart
  /\ regex = NoRegExp
  /\ refCall = NoCall
  /\ calls = 0
  /\ NoDialog

CaseSpec == CaseInit /\ [][Next]_vars

(***************************************************************************)
(* ModesSpec: one call of the search, in either mode, for a query of ASCII *)
(* letters and digits in a document of ASCII lines: one short line, or a   *)
(* large document.                                                         *)
(***************************************************************************)
AsciiLines == SeqsUpTo({"a", "A", "-", "1"}, MaxLineLen)
AlnumQueries == SeqsUpTo({"a", "A", "1"}, MaxQueryLen) \ {<<>>}

ModesInit ==
  /\ \/ (\E line \in AsciiLines : lines = <<line>>) /\ query \in AlnumQueries
     \/ lines \in BigDocs /\ query \in {<<"a">>, <<"A", "a">>}
  /\ options \in Options
  /\ result = IdleResult
  /\ pc = "ready"
  /\ scan = SubstringScanStart
  /\ regex = NoRegExp
  /\ refCall = NoCall
  /\ calls = 0
  /\ NoDialog

ModesSpec == ModesInit /\ [][Next]_vars

(***************************************************************************)
(* SnippetSpec: one call of the search on a document of one line that is   *)
(* long enough for its preview to be cut on either side: filler, the text  *)
(* the queries look for, filler.  The filler before the text is "-" or     *)
(* U+0130, whose lower case is two units long.                             *)
(***************************************************************************)
Fill(n, unit) == [i \in 1..n |-> unit]

SnippetLines ==
  {Fill(n, unit) \o core \o Fill(p, "-") :
     n \in 0..(SNIPPET_PADDING + MaxOver), unit \in {"-", "U+0130"},
     core \in {<<>>, <<"a">>, <<"A", "a">>, <<"a", "-", "a">>},
     p \in {0, SNIPPET_PADDING, SNIPPET_PADDING + MaxOver}}

SnippetInit ==
  /\ \E line \in SnippetLines : lines = <<line>>
  /\ query \in {<<"a">>, <<"A", "a">>, <<"a", "*">>, <<"-", "a">>}
  /\ options \in Options
  /\ result = IdleResult
  /\ pc = "ready"
  /\ scan = SubstringScanStart
  /\ regex = NoRegExp
  /\ refCall = NoCall
  /\ calls = 0
  /\ NoDialog

SnippetSpec == SnippetInit /\ [][Next]_vars

(***************************************************************************)
(* What the claims speak of.                                               *)
(***************************************************************************)
\* The occurrences the active mode counts on one line, for a trimmed query.
LineOccurrences(line, q, opts) ==
  IF q = <<>> THEN 0
  ELSE IF opts.regex
  THEN LET re == RegExp(RegexSource(q, opts), RegexFlags(opts))
       IN IF re.ok THEN RegexScan(line, re, RegexScanStart).occurrences ELSE 0
  ELSE SubstringScan(line, IF opts.caseSensitive THEN q ELSE toLowerCase(q), opts,
                     SubstringScanStart).occurrences

\* The 1-based numbers of the lines with at least one occurrence, ascending.
MatchingLines(ls, q, opts) ==
  SelectSeq([i \in 1..Len(ls) |-> i], LAMBDA i : LineOccurrences(ls[i], q, opts) > 0)

Matching == MatchingLines(lines, trim(query), options)

RECURSIVE SumOf(_, _, _)
SumOf(f, lo, hi) ==
  IF lo > hi THEN 0
  ELSE IF lo = hi THEN f[lo]
  ELSE LET mid == (lo + hi) \div 2 IN SumOf(f, lo, mid) + SumOf(f, mid + 1, hi)

Called == pc # "ready"

\* C1: in either mode, a document with more than 500 matching lines gives
\* isTruncated = TRUE, matches = the first 500 matching lines in ascending
\* order and nothing after them, and both totals -1.
C1_TruncatedAtCap ==
  LET matching == Matching
  IN (Called /\ Len(matching) > MAX_MATCH_LINES) =>
       /\ pc = "return"
       /\ result.isTruncated
       /\ Len(result.matches) = MAX_MATCH_LINES
       /\ [k \in 1..MAX_MATCH_LINES |-> result.matches[k].lineNumber]
            = SubSeq(matching, 1, MAX_MATCH_LINES)
       /\ result.totalOccurrences = -1
       /\ result.totalMatchedLines = -1
       /\ result.errorMessage = NULL

C1_Witness ==
  /\ pc = "return"
  /\ options.regex
  /\ Len(Matching) = MAX_MATCH_LINES + 1
  /\ result.isTruncated
  /\ Len(result.matches) = MAX_MATCH_LINES

\* C2: for every input, isTruncated holds exactly when more than 500 lines
\* match, and matches never has more than 500 entries.
C2_TruncatedIffOverCap ==
  Called =>
    /\ result.isTruncated <=> (Len(Matching) > MAX_MATCH_LINES)
    /\ Len(result.matches) <= MAX_MATCH_LINES

C2_Witness ==
  /\ pc = "return"
  /\ Len(Matching) = MAX_MATCH_LINES
  /\ Len(lines) > MAX_MATCH_LINES
  /\ ~result.isTruncated
  /\ Len(result.matches) = MAX_MATCH_LINES

\* C3: a result with isTruncated = FALSE and no error message has
\* totalOccurrences = the sum of its entries' occurrences, totalMatchedLines
\* = the number of its entries, and one entry for each matching line.
C3_ExactTotals ==
  (Called /\ ~result.isTruncated /\ result.errorMessage = NULL) =>
    LET n == Len(result.matches)
        counts == [k \in 1..n |-> result.matches[k].occurrences]
    IN /\ result.totalOccurrences = SumOf(counts, 1, n)
       /\ result.totalMatchedLines = n
       /\ [k \in 1..n |-> result.matches[k].lineNumber] = Matching
       /\ counts = [k \in 1..n |->
                     LineOccurrences(lines[result.matches[k].lineNumber],
                                     trim(query), options)]

C3_Witness ==
  /\ pc = "return"
  /\ ~result.isTruncated
  /\ result.errorMessage = NULL
  /\ result.totalMatchedLines = 2
  /\ result.totalOccurrences = 4

\* Whether new RegExp throws for the given query and options.
CompileFails(q, opts) == ~RegExp(RegexSource(q, opts), RegexFlags(opts)).ok

\* C4: errorMessage is set only in regex mode for a pattern that does not
\* compile; the call then returns (nothing is thrown) an empty result with
\* zero counts; in substring mode errorMessage is null for every query.
C4_ErrorOnlyForInvalidRegex ==
  Called =>
    /\ pc = "return"
    /\ result.errorMessage # NULL <=>
         (options.regex /\ trim(query) # <<>> /\ CompileFails(trim(query), options))
    /\ result.errorMessage # NULL =>
         /\ result.matches = <<>>
         /\ result.totalOccurrences = 0
         /\ result.totalMatchedLines = 0
         /\ ~result.isTruncated
    /\ ~options.regex => result.errorMessage = NULL

C4_Witness ==
  /\ pc = "return"
  /\ options.regex
  /\ trim(query) = <<"(">>
  /\ lines # <<>>
  /\ result.errorMessage = InvalidRegexMessage

\* C5: a query that is only whitespace gives the idle result, whatever the
\* lines and the options.
C5_EmptyQueryIsIdle ==
  (Called /\ \A i \in 1..Len(query) : IsWhiteSpace(query[i])) =>
    /\ pc = "return"
    /\ result = IdleResult

C5_Witness ==
  /\ pc = "return"
  /\ query = <<" ">>
  /\ options.regex
  /\ \E i \in 1..Len(lines) : \E j \in 1..Len(lines[i]) : lines[i][j] = " "
  /\ result = IdleResult

\* C6: the scan of a line terminates in both modes.  An iteration of the
\* substring loop that goes on moves fromIndex forward by at least
\* max(1, len(query)) and never past the end of the scanned text; one of
\* the regex loop moves lastIndex forward, past the match position when the
\* match is empty, and never further than one past the end of the line: so
\* either loop is left after finitely many iterations.  The count the scan
\* ends with is finite and not negative, on empty lines too.
C6_ScanTerminates ==
  /\ [][(pc = "scan" /\ scan'.running) =>
          IF options.regex
          THEN /\ scan'.lastIndex > scan.lastIndex
               /\ scan'.matchEnd = scan'.matchIndex => scan'.lastIndex >= scan'.matchIndex + 1
          ELSE scan'.fromIndex >= scan.fromIndex + Max(1, Len(NormalizedQuery))]_vars
  /\ [](pc = "scan" =>
          IF options.regex
          THEN scan.lastIndex \in 0..(Len(ScanLine) + 1)
          ELSE scan.fromIndex \in 0..Len(toLowerCase(ScanLine)))
  /\ [](pc = "scan" /\ ~scan.running => scan.occurrences \in 0..(2 * Len(ScanLine) + 1))

C6_Witness ==
  /\ options.regex
  /\ ~options.wholeWord
  /\ query = <<"a", "*">>
  /\ ScanLine = <<"-", "a">>
  /\ ~scan.running
  /\ scan.occurrences = 3

\* Whether q occurs in text at offset k, letters compared without regard to
\* case unless caseSensitive.
SameUnit(a, b, caseSensitive) ==
  \/ a = b
  \/ /\ ~caseSensitive
     /\ \E i \in 1..26 : {a, b} \subseteq {UpperLetters[i], LowerLetters[i]}

OccursAt(text, q, k, caseSensitive) ==
  /\ k >= 0
  /\ k + Len(q) <= Len(text)
  /\ \A j \in 1..Len(q) : SameUnit(text[k + j], q[j], caseSensitive)

\* The least offset >= k at which q occurs in text, or -1.
RECURSIVE LeftmostFrom(_, _, _, _)
LeftmostFrom(text, q, k, caseSensitive) ==
  IF k + Len(q) > Len(text) THEN -1
  ELSE IF OccursAt(text, q, k, caseSensitive) THEN k
  ELSE LeftmostFrom(text, q, k + 1, caseSensitive)

\* The number of occurrences met by scanning from k and resuming right
\* after the end of each.
RECURSIVE NonOverlapping(_, _, _, _)
NonOverlapping(text, q, k, caseSensitive) ==
  LET at == LeftmostFrom(text, q, k, caseSensitive)
  IN IF at = -1 THEN 0 ELSE 1 + NonOverlapping(text, q, at + Len(q), caseSensitive)

SubstringCount(line, q, opts) ==
  SubstringScan(line, IF opts.caseSensitive THEN q ELSE toLowerCase(q), opts,
                SubstringScanStart).occurrences

\* C7: in substring mode with wholeWord = FALSE the count of a line is the
\* number of occurrences met scanning left to right and resuming after the
\* end of each ("aa" counts 2 in "aaaa" and 1 in "aaa"), and the offset
\* recorded for the preview is that of the line's leftmost occurrence.
C7_NonOverlappingCount ==
  /\ SubstringCount(<<"a", "a", "a", "a">>, <<"a", "a">>, DefaultOptions) = 2
  /\ SubstringCount(<<"a", "a", "a">>, <<"a", "a">>, DefaultOptions) = 1
  /\ (pc = "scan" /\ ~options.regex /\ ~options.wholeWord /\ ~scan.running) =>
       /\ scan.occurrences = NonOverlapping(ScanLine, query, 0, options.caseSensitive)
       /\ scan.firstMatchIndex = LeftmostFrom(ScanLine, query, 0, options.caseSensitive)

\* The same with the case-sensitive scans only.
C7_CaseSensitiveOnly ==
  (pc = "scan" /\ ~options.regex /\ ~options.wholeWord /\ ~scan.running
     /\ options.caseSensitive) =>
       /\ scan.occurrences = NonOverlapping(ScanLine, query, 0, TRUE)
       /\ scan.firstMatchIndex = LeftmostFrom(ScanLine, query, 0, TRUE)

\* Whether the length units of line at offset k have a non-word character or
\* a line boundary on both sides (word character: letter, digit, underscore).
IsLetterDigitUnderscore(c) ==
  c \in AsciiLetters \/ c \in Digits \/ c = "_" \/ c = "U+0130"

Flanked(line, k, length) ==
  /\ k = 0 \/ ~IsLetterDigitUnderscore(line[k])
  /\ k + length >= Len(line) \/ ~IsLetterDigitUnderscore(line[k + length + 1])

CatLine ==
  <<"c", "o", "n", "c", "a", "t", "e", "n", "a", "t", "e", " ",
    "c", "a", "t", " ", "c", "a", "t", "e", "g", "o", "r", "y">>

\* C8: in substring mode with wholeWord = TRUE every occurrence counted is
\* an occurrence of the query in the line with a non-word character or a
\* line boundary right before and right after it, whatever caseSensitive;
\* "cat" in "concatenate cat category" counts 1, and 3 with wholeWord = FALSE.
C8_CountedAreWholeWords ==
  /\ \A cs \in BOOLEAN :
       /\ SubstringCount(CatLine, <<"c", "a", "t">>,
                         [caseSensitive |-> cs, wholeWord |-> TRUE, regex |-> FALSE]) = 1
       /\ SubstringCount(CatLine, <<"c", "a", "t">>,
                         [caseSensitive |-> cs, wholeWord |-> FALSE, regex |-> FALSE]) = 3
  /\ (pc = "scan" /\ ~options.regex /\ options.wholeWord /\ scan.counted) =>
       /\ OccursAt(ScanLine, query, scan.foundIndex, options.caseSensitive)
       /\ Flanked(ScanLine, scan.foundIndex, Len(query))

\* C9: in regex mode with wholeWord = TRUE the text of every match counted
\* has a non-word character or a string edge on both sides.
C9_RegexMatchesAreWholeWords ==
  (pc = "scan" /\ options.regex /\ options.wholeWord /\ scan.matchIndex >= 0) =>
    Flanked(ScanLine, scan.matchIndex, scan.matchEnd - scan.matchIndex)

C11_OnePendingTimer ==
  /\ Cardinality(timers) <= 1
  /\ timers # {} => timers = {[id |-> debounceRef, value |-> query]}
  /\ ~mounted => timers = {}

C11_Witness ==
  /\ mounted
  /\ timeouts = 3
  /\ calls = 1
  /\ timers = {[id |-> 3, value |-> <<"a">>]}

\* C12: every evaluation of the search, whether a timeout firing, an option
\* toggle or a change of the document text brought it about, is given the
\* trimmed value of the text the input holds at that moment.
C12_RunsUseLatestInput ==
  [][calls' # calls => trim(debouncedQuery') = trim(query')]_vars

\* C13: a step that changes the text of the input leaves currentPage at 1,
\* whatever it was, and the timeout it sets has not fired in that step.
C13_TextChangeResetsPage ==
  [][query' # query =>
       /\ currentPage' = 1
       /\ mounted' => [id |-> debounceRef', value |-> query'] \in timers']_vars

C13_Witness ==
  /\ PaginationShown
  /\ currentPage = 1
  /\ query = <<"a", " ">>
  /\ debouncedQuery = <<"a">>
  /\ timers # {}

\* C14: a step that changes only currentPage (a page button) leaves the
\* result, the debounced query, the options, the pending timeouts and the
\* number of evaluations of the search as they were; the search is
\* evaluated only in a step that changes the lines, the debounced query or
\* the options.
C14_PageChangeRunsNothing ==
  /\ [][(mounted /\ mounted' /\ currentPage' # currentPage /\ query' = query) =>
          UNCHANGED <<result, pc, debouncedQuery, options, lines, timers,
                      debounceRef, calls, splits>>]_vars
  /\ [][calls' # calls =>
          (lines' # lines \/ debouncedQuery' # debouncedQuery \/ options' # options)]_vars

C14_Witness ==
  /\ PaginationShown
  /\ currentPage = 2
  /\ calls = 2
  /\ timers = {}

\* C15 as stated: no text is split twice, and the lines are those of the
\* text.
C15_OncePerDistinctText ==
  /\ \A i, j \in 1..Len(splits) : splits[i] = splits[j] => i = j
  /\ mounted => lines = split(markdown)

\* C15, amended: the lines are split from the text once when the modal is
\* mounted and once each time it is given a text other than the one it has
\* (also one it had before).  Every other step (a keystroke, a timeout
\* firing, an option toggle, a page button, opening or closing the dialog)
\* leaves the lines as they are, and while the modal is mounted the lines
\* are those of its text.
C15_SplitOnEachTextChange ==
  /\ [][mounted' =>
          IF ~mounted THEN splits' = <<markdown'>>
          ELSE IF markdown' # markdown THEN splits' = Append(splits, markdown')
          ELSE splits' = splits]_vars
  /\ [][(mounted /\ mounted' /\ markdown' = markdown) => lines' = lines]_vars
  /\ [](mounted => lines = split(markdown))
  /\ [](\A i \in 1..(Len(splits) - 1) : splits[i] # splits[i + 1])

C15_Witness ==
  /\ mounted
  /\ Len(splits) = 3
  /\ splits[1] = splits[3]
  /\ calls = MaxRuns
  /\ timeouts = 1
  /\ currentPage = 2

\* The text with every carriage return that a line feed follows removed.
WithoutCRLF(text) ==
  Flatten([i \in 1..Len(text) |->
             IF text[i] = "CR" /\ At(text, i) = "LF" THEN <<>> ELSE <<text[i]>>])

\* The lines joined with a line feed between two of them.
RECURSIVE JoinLines(_)
JoinLines(ls) ==
  IF Len(ls) <= 1 THEN Flatten(ls)
  ELSE Head(ls) \o <<"LF">> \o JoinLines(Tail(ls))

\* C16: the lines of a text are its segments between line endings (\n or
\* \r\n) in order: one more than there are line endings, none with a line
\* feed in it, empty ones kept (one empty line for the empty text, a last
\* empty line after a trailing line ending), and joined with \n they give
\* the text with each \r\n replaced by \n, so nothing else is removed.
C16_SplitKeepsEveryLine ==
  mounted =>
    /\ lines = split(markdown)
    /\ Len(lines) = Cardinality({i \in 1..Len(markdown) : markdown[i] = "LF"}) + 1
    /\ \A k \in 1..Len(lines) : \A j \in 1..Len(lines[k]) : lines[k][j] # "LF"
    /\ markdown = <<>> => lines = << <<>> >>
    /\ (markdown # <<>> /\ markdown[Len(markdown)] = "LF") => lines[Len(lines)] = <<>>
    /\ JoinLines(lines) = WithoutCRLF(markdown)

C16_Witness ==
  /\ mounted
  /\ markdown = <<"CR", "LF", " ", "LF">>
  /\ lines = << <<>>, <<" ">>, <<>> >>

\* The entries the list shows on one page, as the claim states them: those
\* at the 0-based positions (page - 1) * 100 up to, not including, page * 100.
PageEntries(matches, page) ==
  LET first == Min(Len(matches), (page - 1) * MATCHES_PER_PAGE)
      last == Min(Len(matches), page * MATCHES_PER_PAGE)
  IN [i \in 1..(last - first) |-> matches[first + i]]

\* C17: page p shows matches[(p-1)*100 .. p*100); there are ceil(n/100)
\* pages; every page but the last holds 100 entries; the pages in order,
\* one after the other, are the match list (250 matches: 100 on page 1,
\* 50 on page 3, 3 pages).
C17_PagesPartitionMatches ==
  LET matches == result.matches
      pages == PageCount(Len(result.matches))
  IN mounted =>
       /\ PageSlice(matches, currentPage) = PageEntries(matches, currentPage)
       /\ pages * MATCHES_PER_PAGE >= Len(matches)
       /\ (pages - 1) * MATCHES_PER_PAGE < Len(matches) \/ pages = 0
       /\ \A p \in 1..(pages - 1) : Len(PageSlice(matches, p)) = MATCHES_PER_PAGE
       /\ Flatten([p \in 1..pages |-> PageSlice(matches, p)]) = matches
       /\ Len(matches) = 250 =>
            /\ pages = 3
            /\ Len(PageSlice(matches, 1)) = 100
            /\ Len(PageSlice(matches, 3)) = 50

C17_Witness ==
  /\ mounted
  /\ Len(result.matches) = 250
  /\ currentPage = 3
  /\ Len(PageSlice(result.matches, currentPage)) = 50

\* Whether a preview begins, or ends, with the ellipsis marker.
LeadingEllipsis(value) == Len(value) >= 3 /\ SubSeq(value, 1, 3) = Ellipsis
TrailingEllipsis(value) ==
  Len(value) >= 3 /\ SubSeq(value, Len(value) - 2, Len(value)) = Ellipsis

\* The units of the line at the 0-based positions from up to, not including, to.
Window(line, from, to) == [i \in 1..(to - from) |-> line[from + i]]

\* What createPreview returned, without the ellipsis markers.
Shown(value) ==
  SubSeq(value,
         IF LeadingEllipsis(value) THEN 4 ELSE 1,
         IF TrailingEllipsis(value) THEN Len(value) - 3 ELSE Len(value))

\* C18: the preview of a non-empty line, for a match at s of length m, is
\* the line from max(0, s - 40) up to min(len, s + m + 40), with "..." in
\* front exactly when that window starts after the first character and
\* "..." behind exactly when it ends before the end of the line; the
\* preview of an empty line is "(empty line)".
C18_PreviewWindow ==
  previewCall.set =>
    LET line == previewCall.line
        s == previewCall.index
        m == previewCall.matchLength
        value == previewCall.value
        from == Max(0, s - 40)
        to == Min(Len(previewCall.line), s + m + 40)
    IN IF line = <<>>
       THEN value = <<"(", "e", "m", "p", "t", "y", " ", "l", "i", "n", "e", ")">>
       ELSE /\ Shown(value) = Window(line, from, to)
            /\ LeadingEllipsis(value) <=> from > 0
            /\ TrailingEllipsis(value) <=> to < Len(line)
            /\ s = 0 => ~LeadingEllipsis(value)
            /\ (s > 40 /\ s + m + 40 < Len(line)) =>
                 LeadingEllipsis(value) /\ TrailingEllipsis(value)

C18_Witness ==
  /\ previewCall.set
  /\ Len(previewCall.line) = 84
  /\ previewCall.index = 41
  /\ previewCall.matchLength = 2
  /\ previewCall.value = Ellipsis \o SubSeq(previewCall.line, 2, 83) \o Ellipsis

\* The occurrences the result reports for the only line of the document.
OnlyLineCount == IF result.matches = <<>> THEN 0 ELSE result.matches[1].occurrences

\* The texts of CaseLines that differ from text in the case of letters only.
CaseVariants(texts, text) ==
  {t \in texts : Len(t) = Len(text) /\ \A i \in 1..Len(t) : SameUnit(t[i], text[i], FALSE)}

HelloLine == <<"h", "e", "l", "l", "o", " ", "H", "E", "L", "L", "O">>

\* C19: in substring mode, with caseSensitive = FALSE the count of a line
\* is the same whatever the case of the letters of the query and of the
\* line; with caseSensitive = TRUE only occurrences in the query's own case
\* are counted; the count with caseSensitive = FALSE is at least the count
\* with caseSensitive = TRUE ("Hello" in "hello HELLO": 2 and 0).
C19_CaseSensitivity ==
  /\ SubstringCount(HelloLine, <<"H", "e", "l", "l", "o">>,
                    [caseSensitive |-> FALSE, wholeWord |-> FALSE, regex |-> FALSE]) = 2
  /\ SubstringCount(HelloLine, <<"H", "e", "l", "l", "o">>,
                    [caseSensitive |-> TRUE, wholeWord |-> FALSE, regex |-> FALSE]) = 0
  /\ (Called /\ ~options.regex /\ options.caseSensitive) =>
       /\ OnlyLineCount <=
            Cardinality({k \in 0..Len(lines[1]) : OccursAt(lines[1], query, k, TRUE)})
       /\ OnlyLineCount <=
            SubstringCount(lines[1], query, [options EXCEPT !.caseSensitive = FALSE])
  /\ (Called /\ ~options.regex /\ ~options.caseSensitive) =>
       /\ \A line \in CaseVariants(CaseLines, lines[1]) :
            \A q \in CaseVariants(CaseQueries, query) :
              SubstringCount(line, q, options) = OnlyLineCount
       /\ OnlyLineCount >=
            SubstringCount(lines[1], query, [options EXCEPT !.caseSensitive = TRUE])

\* A number that depends on the cap alone: the model's documents have up to
\* four lines more.
WorkBound == 2 * MAX_MATCH_LINES

\* C20: the lines one search scans are bounded by a value that depends on
\* the cap alone, whatever the number of lines of the document and however
\* many of them match.
C20_WorkBoundedByCap ==
  Called => LinesScanned(lines, query, options) <= WorkBound

\* C21: the matches of every result are lines of the document in strictly
\* ascending lineNumber order (so at most one per line), each with the
\* 1-based position of its line as lineNumber and with the occurrences
\* counted on that line, at least 1; no line without an occurrence appears.
C21_MatchesAreLinesInOrder ==
  Called =>
    /\ \A k \in 1..Len(result.matches) :
         /\ result.matches[k].lineNumber \in 1..Len(lines)
         /\ result.matches[k].occurrences >= 1
         /\ result.matches[k].occurrences =
              LineOccurrences(lines[result.matches[k].lineNumber], trim(query), options)
    /\ \A k \in 1..(Len(result.matches) - 1) :
         result.matches[k].lineNumber < result.matches[k + 1].lineNumber
    /\ [k \in 1..Len(result.matches) |-> result.matches[k].lineNumber]
         = SubSeq(Matching, 1, Len(result.matches))

C21_Witness ==
  /\ Called
  /\ Len(lines) > 2 * MAX_MATCH_LINES
  /\ Len(result.matches) = MAX_MATCH_LINES
  /\ result.matches[1].lineNumber = 2
  /\ result.matches[2].lineNumber = 4
  /\ result.matches[2].occurrences = 1

\* C22: where the open dialog's summary shows the two totals as numbers,
\* the result is not truncated and the numbers are its totals, both >= 0;
\* where the result is truncated the summary of an input that is not blank
\* is the "500+ matches (showing first 500 lines)" message.
C22_SentinelNeverShown ==
  (mounted /\ isOpen) =>
    /\ Summary(query, result).shows = "totals" =>
         /\ ~result.isTruncated
         /\ Summary(query, result).totalOccurrences = result.totalOccurrences
         /\ Summary(query, result).totalMatchedLines = result.totalMatchedLines
         /\ Summary(query, result).totalOccurrences >= 0
         /\ Summary(query, result).totalMatchedLines >= 0
    /\ (result.isTruncated /\ trim(query) # <<>>) =>
         Summary(query, result) =
           [shows |-> "truncated", totalOccurrences |-> 500, totalMatchedLines |-> 500]

C22_Witness ==
  /\ mounted /\ isOpen
  /\ result.isTruncated
  /\ result.totalOccurrences = -1
  /\ Summary(query, result).shows = "truncated"
  /\ currentPage = 5

\* The units of a text.
UnitsOf(text) == {text[i] : i \in 1..Len(text)}

\* C23: whatever the offset (also negative or past the end of the line) and
\* the length (also zero or negative), the window of the preview starts at
\* 0 or later and ends at the line's length or before, the preview of a
\* line that is not empty holds units of the line and ellipsis dots only,
\* and the preview is the one of the offset raised to 0 and the length
\* raised to 1.
C23_WindowWithinLine ==
  previewCall.set =>
    /\ 0 <= sliceStart(previewCall.line, previewCall.index)
    /\ sliceEnd(previewCall.line, previewCall.index, previewCall.matchLength)
         <= Len(previewCall.line)
    /\ previewCall.line # <<>> =>
         /\ UnitsOf(previewCall.value) \subseteq UnitsOf(previewCall.line) \cup {"."}
         /\ UnitsOf(Shown(previewCall.value)) \subseteq UnitsOf(previewCall.line)
         /\ Len(Shown(previewCall.value)) <= Len(previewCall.line)
    /\ previewCall.index < 0 =>
         previewCall.value = createPreview(previewCall.line, 0, previewCall.matchLength)
    /\ previewCall.matchLength < 1 =>
         previewCall.value = createPreview(previewCall.line, previewCall.index, 1)

C23_Witness ==
  /\ previewCall.set
  /\ Len(previewCall.line) = 42
  /\ previewCall.index = -2
  /\ previewCall.matchLength = 0
  /\ previewCall.value = SubSeq(previewCall.line, 1, 41) \o Ellipsis

\* C24: once the input text has stopped changing, in a modal that stays
\* mounted (and within the runs of the search the model allows), the
\* pending timeout fires and from then on the debounced query is the input
\* text and the result shown is the search of the trimmed input text under
\* the current options and lines.
C24_QuietInputIsSearched ==
  <>[](mounted /\ calls < MaxRuns) =>
    <>[](/\ timers = {}
         /\ debouncedQuery = query
         /\ result = searchMarkdownLines(lines, trim(query), options).value)

C24_Witness ==
  /\ mounted /\ isOpen
  /\ calls < MaxRuns
  /\ timeouts = 2
  /\ timers = {}
  /\ query = <<"a", " ">>
  /\ debouncedQuery = query
  /\ result.totalMatchedLines = 2

\* C25: a timeout that fires commits the text that is in the input, and
\* the debounced query of a mounted modal only ever changes to that text:
\* a text that a later keystroke replaced before its timeout fired is
\* never committed, so never searched for.
C25_SupersededNeverCommitted ==
  /\ [][TimerFiring =>
          /\ \A t \in timers \ timers' : t.value = query
          /\ mounted => debouncedQuery' = query]_vars
  /\ [][(debouncedQuery' # debouncedQuery /\ mounted') =>
          /\ debouncedQuery' = query'
          /\ timers' = {}]_vars
  /\ [][(calls' # calls /\ debouncedQuery' # query') =>
          debouncedQuery' = debouncedQuery]_vars

C25_Witness ==
  /\ mounted
  /\ timeouts = 2
  /\ calls = 2
  /\ timers = {}
  /\ query = <<"a">>
  /\ debouncedQuery = <<"a">>

\* C26: in substring mode with wholeWord = TRUE, a line that has a position
\* where the query occurs with a non-word character or a line boundary on
\* both sides is reported as matched, whatever the query.
C26_FlankedOccurrenceIsFound ==
  (pc = "scan" /\ ~options.regex /\ options.wholeWord /\ ~scan.running) =>
    ((\E k \in 0..Len(ScanLine) :
        /\ OccursAt(ScanLine, query, k, options.caseSensitive)
        /\ Flanked(ScanLine, k, Len(query)))
       => scan.occurrences >= 1)

\* C27: for a query of ASCII letters and digits and lines of ASCII text,
\* the search returns, and returns the same SearchResult (matched lines,
\* occurrences, previews, totals, truncation flag) in regex mode and in
\* substring mode, under every caseSensitive and wholeWord.
C27_ModesAgreeOnPlainQueries ==
  Called =>
    /\ pc = "return"
    /\ result = searchMarkdownLines(lines, query, [options EXCEPT !.regex = ~@]).value

C27_Witness ==
  /\ Called
  /\ lines = << <<"A", "-", "a", "-">> >>
  /\ query = <<"a">>
  /\ options = [regex |-> TRUE, caseSensitive |-> FALSE, wholeWord |-> TRUE]
  /\ result.totalOccurrences = 2

\* C28: while the modal has a result with matches, currentPage is one of
\* the pages 1 .. ceil(matches / 100) of that result, so the slice of the
\* list it shows is not empty.
C28_CurrentPageHasMatches ==
  (mounted /\ result.matches # <<>>) =>
    /\ currentPage \in 1..PageCount(Len(result.matches))
    /\ PageSlice(result.matches, currentPage) # <<>>

\* C29: whenever the dialog is open with a non-blank input text, the
\* SearchResult it renders (summary, list, "No matching lines found." or
\* error message) is the result of searching the lines for the trimmed text
\* the input holds now, not for a text it held earlier.
C29_ShownResultIsForCurrentInput ==
  (mounted /\ isOpen /\ trim(query) # <<>>) =>
    result = searchMarkdownLines(lines, trim(query), options).value

\* The first match the active mode counts on a line: in regex mode the
\* first match of the expression, in substring mode the first offset of the
\* line at which the query occurs (flanked, with wholeWord).
FirstCounted(line, q, opts) ==
  IF opts.regex
  THEN LET re == RegExp(RegexSource(q, opts), RegexFlags(opts))
           r == exec(re, line, 0)
       IN IF re.ok /\ r.found
          THEN [found |-> TRUE, index |-> r.index, length |-> r.end - r.index]
          ELSE [found |-> FALSE, index |-> -1, length |-> 0]
  ELSE LET at == {k \in 0..Len(line) :
                   /\ OccursAt(line, q, k, opts.caseSensitive)
                   /\ opts.wholeWord => Flanked(line, k, Len(q))}
       IN IF at # {}
          THEN [found |-> TRUE, index |-> CHOOSE k \in at : \A j \in at : k <= j,
                length |-> Len(q)]
          ELSE [found |-> FALSE, index |-> -1, length |-> 0]

\* text occurs in s as a run of consecutive units.
ContainsText(s, text) ==
  \E k \in 0..(Len(s) - Len(text)) : SubSeq(s, k + 1, k + Len(text)) = text

\* C30: in both modes, the preview of every LineMatch of a non-empty line
\* contains the whole text of the first match counted on the line, and is
\* at most (length of that match, at least 1) + 2 * 40 + 6 units long.
C30_PreviewShowsFirstMatch ==
  Called =>
    \A i \in 1..Len(result.matches) :
      LET line == lines[result.matches[i].lineNumber]
          first == FirstCounted(line, trim(query), options)
          preview == result.matches[i].preview
      IN (line # <<>> /\ first.found) =>
           /\ ContainsText(preview,
                           SubSeq(line, first.index + 1, first.index + first.length))
           /\ Len(preview) <= Max(1, first.length) + 2 * SNIPPET_PADDING + 6

====
